---- MODULE Spec2Model ----
(***************************************************************************)
(* Model of the MCP demo repository:                                       *)
(*   - src/mcp_server.py : the line-delimited JSON-RPC server (stdio),     *)
(*     its dispatcher and its five tools;                                  *)
(*   - src/app.py        : the HTTP binding of the same tools.             *)
(* The two programs are separate processes; Spec is the stdio server and   *)
(* AppSpec the HTTP application.                                           *)
(*                                                                         *)
(* Conventions.  A JSON scalar is a record [t, i, s]: t is its type        *)
(* ("absent" when the key is not in the object, "null", "int", "str"), i   *)
(* its integer value and s its string value.  Floats are modelled by       *)
(* integers (20.0 + i is 20 + i).  A date is the number of days since the  *)
(* reference day of the run.  A function that can raise returns            *)
(* [raised, value]: raised is None or the text of str(e).                  *)
(***************************************************************************)
EXTENDS Integers, Sequences, FiniteSets, TLC

VARIABLES
    initialized,   \* MCPServer.initialized
    running,       \* the main loop has not been left by KeyboardInterrupt
    line,          \* the line the main loop read last
    written,       \* the lines that iteration wrote to stdout
    ran,           \* the tool that iteration executed (None: none)
    upstream,      \* the reply of the upstream service it called (NoCall: none)
    escaped,       \* the exception that left handle_message (None: none)
    clock,         \* the current UTC date, in days since the process started
    http           \* app.py: the last request, its response and its live call

vars == <<initialized, running, line, written, ran, upstream, escaped, clock, http>>

(***************************************************************************)
(* Bounds of the model.                                                    *)
(***************************************************************************)
\* the longest list the upstream weather service returns
MaxUpstreamDays == 3
\* the largest `days` a client sends beyond the documented maximum
MaxDaysOver == 1
\* the days the process runs
MaxClock == 1
\* the largest max_chars a client sends
MaxChars == 6
\* the latest reference date a client sends, in days
MaxToday == 23

(***************************************************************************)
(* Python values.                                                          *)
(***************************************************************************)
None == "None"

JAbsent == [t |-> "absent", i |-> 0, s |-> ""]

JNull == [t |-> "null", i |-> 0, s |-> ""]

JInt(n) == [t |-> "int", i |-> n, s |-> ""]

JStr(x) == [t |-> "str", i |-> 0, s |-> x]

\* dict.get(key, default): the default only when the key is absent
get(v, default) == IF v.t = "absent" THEN default ELSE v

Ok(v) == [raised |-> None, value |-> v]

Raise(msg) == [raised |-> msg, value |-> None]

\* the type name Python prints for a JSON scalar
TypeName(v) ==
    CASE v.t = "null" -> "NoneType"
      [] v.t = "int" -> "int"
      [] OTHER -> "str"

\* str.strip() on the strings of the model
strip(x) ==
    CASE x = " london " -> "london"
      [] x = " " -> ""
      [] x = " due_date " -> "due_date"
      [] x = " AI " -> "AI"
      [] x = " broker" -> "broker"
      [] x = " due_date" -> "due_date"
      [] x = " amount" -> "amount"
      [] OTHER -> x

\* str.lower() on the strings of the model
lower(x) ==
    CASE x = "Chicago" -> "chicago"
      [] x = "New York" -> "new york"
      [] x = "BTC" -> "btc"
      [] x = "Eth" -> "eth"
      [] x = "DOGE" -> "doge"
      [] x = "USD" -> "usd"
      [] x = "TRUE" -> "true"
      [] x = "None" -> "none"
      [] OTHER -> x

\* the decimal literals of the model, as int() reads them
IntLiterals == {"0", "1", "2", "3", "7", "8", "200"}

IntOfLiteral(x) ==
    CASE x = "0" -> 0
      [] x = "1" -> 1
      [] x = "2" -> 2
      [] x = "3" -> 3
      [] x = "7" -> 7
      [] x = "8" -> 8
      [] OTHER -> 200

\* int(v)
int(v) ==
    CASE v.t = "int" -> Ok(v.i)
      [] v.t = "str" ->
            IF v.s \in IntLiterals THEN Ok(IntOfLiteral(v.s))
            ELSE Raise("invalid literal for int() with base 10: '" \o v.s \o "'")
      [] OTHER ->
            Raise("int() argument must be a string, a bytes-like object or a real number, not 'NoneType'")

\* str(v) of a JSON scalar
str(v) ==
    CASE v.t = "str" -> v.s
      [] v.t = "null" -> "None"
      [] v.t = "int" ->
            (CASE v.i = 0 -> "0" [] v.i = 1 -> "1" [] v.i = 5 -> "5" [] OTHER -> "7")
      [] OTHER -> ""

\* what a tool hands back to handle_tool_call: its return value or the
\* exception it raised, and whether it attempted a live call on the way
Returned(v, called) == [raised |-> None, value |-> v, called |-> called]

Raised(msg, called) == [raised |-> msg, value |-> None, called |-> called]

\* params.get on arguments that are not a JSON object
NotADict == "'list' object has no attribute 'get'"

(***************************************************************************)
(* The upstream services, as the adapters see them.  A JSON number of a    *)
(* payload is [ok, v]: ok is FALSE for a value float() rejects (null).     *)
(* Live values are chosen outside the substitute values (20+i, 10+i, 0 and *)
(* the fixed prices), so that a value tells where it came from.            *)
(***************************************************************************)
Num(v) == [ok |-> TRUE, v |-> v]

NotANumber == [ok |-> FALSE, v |-> 0]

NoCall == [status |-> "no call"]

\* how a live call fails before a payload is read: httpx raises, the 5 s
\* timeout expires, raise_for_status() raises, r.json() raises
FailureStatuses == {"network error", "timeout", "http 503", "not json"}

Goods(n, v) == [k \in 1..n |-> Num(v)]

BadAt(n, v, k) == [j \in 1..n |-> IF j = k THEN NotANumber ELSE Num(v)]

\* the "time" lists the weather service returns: ascending runs from the
\* reference day, and one list out of order
TimeLists == {[k \in 1..n |-> k - 1] : n \in 0..MaxUpstreamDays} \cup {<<1, 0>>}

WeatherPayloads ==
    {[status |-> "ok", hasDaily |-> FALSE, time |-> <<>>, tmax |-> <<>>,
      tmin |-> <<>>, hasPrec |-> FALSE, prec |-> <<>>]}
    \cup
    UNION {
      LET n == Len(tl) IN
      {[status |-> "ok", hasDaily |-> TRUE, time |-> tl, tmax |-> tx,
        tmin |-> Goods(n, 1), hasPrec |-> hp, prec |-> Goods(n, 2)] :
          tx \in {Goods(n, 31)} \cup {BadAt(n, 31, k) : k \in 1..n}
                 \cup {Goods(n - 1, 31) : z \in 1..(IF n > 0 THEN 1 ELSE 0)},
          hp \in BOOLEAN} : tl \in TimeLists }

WeatherUpstream ==
    {[status |-> f, hasDaily |-> FALSE, time |-> <<>>, tmax |-> <<>>,
      tmin |-> <<>>, hasPrec |-> FALSE, prec |-> <<>>] : f \in FailureStatuses}
    \cup WeatherPayloads

CryptoUpstream ==
    {[status |-> f, hasCoin |-> FALSE, hasVs |-> FALSE, price |-> NotANumber] :
        f \in FailureStatuses}
    \cup
    {[status |-> "ok", hasCoin |-> TRUE, hasVs |-> TRUE, price |-> Num(42)],
     [status |-> "ok", hasCoin |-> TRUE, hasVs |-> TRUE, price |-> NotANumber],
     [status |-> "ok", hasCoin |-> TRUE, hasVs |-> FALSE, price |-> NotANumber],
     [status |-> "ok", hasCoin |-> FALSE, hasVs |-> FALSE, price |-> NotANumber]}

(***************************************************************************)
(* Weather adapter.                                                        *)
(***************************************************************************)
\* the keys of the local gazetteer
local_geo == {"chicago", "new york", "london"}

\* the body of the loop over range(len(dates)): entry i is appended, or the
\* loop is left by the exception of the first index whose tmaxs[i], tmins[i]
\* or precs[i] is missing (IndexError) or no number (TypeError)
RECURSIVE forecast_loop(_, _, _)
forecast_loop(p, i, daily) ==
    LET precs == IF p.hasPrec THEN p.prec ELSE [k \in 1..Len(p.time) |-> Num(0)]
    IN  IF i > Len(p.time) THEN [raised |-> FALSE, daily |-> daily]
        ELSE IF \/ i > Len(p.tmax) \/ i > Len(p.tmin) \/ i > Len(precs)
                \/ ~p.tmax[i].ok \/ ~p.tmin[i].ok \/ ~precs[i].ok
             THEN [raised |-> TRUE, daily |-> daily]
             ELSE forecast_loop(p, i + 1,
                    Append(daily, [date |-> p.time[i], t_max |-> p.tmax[i].v,
                                   t_min |-> p.tmin[i].v, precip_mm |-> precs[i].v]))

\* the body of the try block around the live call, started with `daily`
fetch_forecast(up, daily) ==
    IF up.status # "ok" \/ ~up.hasDaily
    THEN [raised |-> TRUE, daily |-> daily]
    ELSE forecast_loop(up, 1, daily)

\* the deterministic mini-forecast from day `start` on: entry i is dated
\* start + i and is 20+i / 10+i / 0.0
fallback_daily(start, days) ==
    [k \in 1..days |->
        [date |-> start + (k - 1), t_max |-> 20 + (k - 1), t_min |-> 10 + (k - 1),
         precip_mm |-> 0]]

\* days < 1 becomes 1, days > 7 becomes 7
clamp_days(d) == IF d < 1 THEN 1 ELSE IF d > 7 THEN 7 ELSE d

\* MCPServer.weather_tool; `now` is the current UTC date
weather_tool(params, up, now) ==
    IF ~params.isDict THEN Raised(NotADict, FALSE)
    ELSE
    LET c == get(params.city, JStr(""))
        d == int(get(params.days, JInt(1)))
    IN  IF c.t # "str"
        THEN Raised("'" \o TypeName(c) \o "' object has no attribute 'strip'", FALSE)
        ELSE IF d.raised # None THEN Raised(d.raised, FALSE)
        ELSE
        LET city == strip(c.s)
            days == clamp_days(d.value)
            location == IF city # "" THEN city ELSE "unknown"
            resolved == city # "" /\ lower(city) \in local_geo
            f == IF resolved THEN fetch_forecast(up, <<>>)
                 ELSE [raised |-> TRUE, daily |-> <<>>]
            source == IF resolved /\ ~f.raised THEN "open-meteo" ELSE "fallback"
            daily == IF f.daily = <<>> THEN fallback_daily(now, days) ELSE f.daily
        IN  Returned([location |-> location, daily |-> daily, source |-> source],
                     resolved)

(***************************************************************************)
(* Crypto adapter.                                                         *)
(***************************************************************************)
\* symbol_map / SYMBOL_MAP; None for a symbol it does not hold
symbol_map(symbol) ==
    CASE symbol = "btc" -> "bitcoin"
      [] symbol = "eth" -> "ethereum"
      [] symbol = "sol" -> "solana"
      [] OTHER -> None

\* fixed.get(coin_id, 1.0)
fixed(coin_id) ==
    CASE coin_id = "bitcoin" -> 50000
      [] coin_id = "ethereum" -> 3500
      [] coin_id = "solana" -> 150
      [] OTHER -> 1

\* the body of the try block around the live call: price = float(data[coin_id][vs])
fetch_price(up) ==
    IF up.status # "ok" \/ ~up.hasCoin \/ ~up.hasVs \/ ~up.price.ok
    THEN [raised |-> TRUE, price |-> 0]
    ELSE [raised |-> FALSE, price |-> up.price.v]

\* MCPServer.crypto_tool
crypto_tool(params, up) ==
    IF ~params.isDict THEN Raised(NotADict, FALSE)
    ELSE
    LET symbol == lower(str(get(params.symbol, JStr("btc"))))
        vs == lower(str(get(params.vs, JStr("usd"))))
        coin_id == symbol_map(symbol)
        f == IF coin_id # None THEN fetch_price(up) ELSE [raised |-> TRUE, price |-> 0]
        price == IF f.raised THEN fixed(coin_id) ELSE f.price
        source == IF f.raised THEN "fallback" ELSE "coingecko"
    IN  Returned([symbol |-> symbol, vs |-> vs, price |-> price, source |-> source],
                 coin_id # None)

(***************************************************************************)
(* The resource root, resources/docs.  A text is a sequence of characters. *)
(* A document has the text the file tool reads and the view of it that     *)
(* csv.DictReader gives: the field names of the header as written and the  *)
(* data rows, each a function from those field names to cells.  A due_date *)
(* cell is [fmt, day]: a date `day` written in strptime format fmt ("none" *)
(* when no accepted format reads it); an amount cell is [ok, v].           *)
(***************************************************************************)
Whitespace == {" ", "\n", "\t"}

DateCell(fmt, day) == [fmt |-> fmt, day |-> day]

Row(inv, broker, due, amount) ==
    [invoice_number |-> inv, broker |-> broker, due_date |-> due, amount |-> amount]

Docs ==
    [n \in {"", "ai-safety-notes.txt", "Fake_Invoice_Data.csv", "spaced_header.csv",
            "bad_header.csv"} |->
        CASE n = "" ->
                [isDir |-> TRUE, text |-> <<>>, fieldnames |-> <<>>, rows |-> <<>>]
          [] n = "ai-safety-notes.txt" ->
                [isDir |-> FALSE,
                 text |-> <<" ", "A", "I", " ", "\n", "\t", "o", "k", "\n">>,
                 fieldnames |-> <<" AI ">>, rows |-> <<>>]
          [] n = "Fake_Invoice_Data.csv" ->
                [isDir |-> FALSE,
                 text |-> <<"a", ",", "b", "\n", "1", ",", " ", "2", "\n">>,
                 fieldnames |-> <<"invoice_number", "broker", "due_date", "amount", "notes">>,
                 rows |-> << Row("INV1", "Acme", DateCell("%Y-%m-%d", 0), Num(1000)),
                             Row("INV2", "Bolt", DateCell("%m/%d/%Y", 14), NotANumber),
                             Row("INV3", "Cord", DateCell("none", 0), Num(5)),
                             Row("INV4", "Dune", DateCell("%d-%m-%Y", 15), Num(70)),
                             Row("INV0", "Echo", DateCell("%Y-%m-%d", 2), Num(9)) >>]
          [] n = "spaced_header.csv" ->
                [isDir |-> FALSE,
                 text |-> <<"a", ",", " ", "b", "\n">>,
                 fieldnames |-> <<"invoice_number", " broker", " due_date", " amount">>,
                 rows |-> << ("invoice_number" :> "INV7") @@ (" broker" :> "Fern")
                             @@ (" due_date" :> DateCell("%Y-%m-%d", 0))
                             @@ (" amount" :> Num(3)) >>]
          [] OTHER ->
                [isDir |-> FALSE,
                 text |-> <<"x">>,
                 fieldnames |-> <<"invoice_number", " due_date ">>,
                 rows |-> << [invoice_number |-> "INV9", due_date |-> DateCell("%Y-%m-%d", 0)] >>]]

(***************************************************************************)
(* File tool.                                                              *)
(***************************************************************************)
\* " ".join(text.split()), a character at a time: runs of whitespace become
\* one space, leading and trailing whitespace goes
RECURSIVE normalize(_, _, _)
normalize(text, out, gap) ==
    IF text = <<>> THEN out
    ELSE IF Head(text) \in Whitespace
         THEN normalize(Tail(text), out, out # <<>>)
         ELSE normalize(Tail(text),
                        IF gap THEN out \o <<" ", Head(text)>> ELSE Append(out, Head(text)),
                        FALSE)

\* text[:m], m an integer: a negative m counts from the end
slice_to(text, m) ==
    LET n == IF m >= 0 THEN (IF m < Len(text) THEN m ELSE Len(text))
             ELSE (IF Len(text) + m > 0 THEN Len(text) + m ELSE 0)
    IN  SubSeq(text, 1, n)

DemoText ==
    <<"D", "e", "m", "o", " ", "c", "o", "n", "t", "e", "n", "t", ":", " ",
      "T", "h", "i", "s", " ", "i", "s", " ", "a", " ", "s", "a", "m", "p",
      "l", "e", " ", "f", "i", "l", "e", " ", "s", "u", "m", "m", "a", "r",
      "y", ".">>

\* the prefix "Error reading file: " of the text file_tool returns when the
\* read raises
ErrorReadingFile ==
    <<"E", "r", "r", "o", "r", " ", "r", "e", "a", "d", "i", "n", "g", " ",
      "f", "i", "l", "e", ":", " ">>

\* MCPServer.file_tool
file_tool(params) ==
    IF ~params.isDict THEN Raised(NotADict, FALSE)
    ELSE
    LET name == get(params.name, JStr(""))
        max_chars == get(params.max_chars, JInt(200))
    IN  IF name.t # "str"
        THEN Raised("unsupported operand type(s) for /: 'PosixPath' and '"
                    \o TypeName(name) \o "'", FALSE)
        ELSE IF name.s \notin DOMAIN Docs
        THEN Returned([name |-> name.s, chars |-> 50, text |-> DemoText], FALSE)
        ELSE IF Docs[name.s].isDir \/ max_chars.t = "str"
        THEN Returned([name |-> name.s, chars |-> 0, text |-> ErrorReadingFile], FALSE)
        ELSE
        LET normalized == normalize(Docs[name.s].text, <<>>, FALSE)
            clipped == IF max_chars.t = "int" THEN slice_to(normalized, max_chars.i)
                       ELSE normalized
        IN  Returned([name |-> name.s, chars |-> Len(clipped), text |-> clipped], FALSE)

\* MCPServer.health_tool; the uptime is not modelled
health_tool ==
    Returned([name |-> "mcp-demo", status |-> "healthy", protocol |-> "MCP"], FALSE)

(***************************************************************************)
(* Invoice follow-up tool.  The `today` argument is [t, fmt, day, s]: for  *)
(* a string, the date `day` written in format fmt as the text s.           *)
(***************************************************************************)
TodayAbsent == [t |-> "absent", fmt |-> "none", day |-> 0, s |-> ""]

TodayStr(fmt, day, text) == [t |-> "str", fmt |-> fmt, day |-> day, s |-> text]

TodayInt == [t |-> "int", fmt |-> "none", day |-> 0, s |-> "5"]

\* the formats _parse_date tries, in its order
formats == <<"%Y-%m-%d", "%m/%d/%Y", "%d-%m-%Y">>

\* the loop of _parse_date from format k on: the first format that reads the
\* text wins; strptime reads a text only in the format it is written in
RECURSIVE try_formats(_, _, _)
try_formats(cell, text, k) ==
    IF k > Len(formats) THEN Raise("unrecognized date format: " \o text)
    ELSE IF cell.fmt = formats[k] THEN Ok(cell.day)
         ELSE try_formats(cell, text, k + 1)

\* MCPServer._parse_date
parse_date(cell, text) == try_formats(cell, text, 1)

\* sorted(S) of a set of integers
RECURSIVE sorted(_)
sorted(S) ==
    IF S = {} THEN <<>>
    ELSE LET m == CHOOSE x \in S : \A y \in S : x <= y
         IN  <<m>> \o sorted(S \ {m})

\* the normalization without its filter `if int(t) > 0`
normalize_thresholds_unfiltered(th) ==
    LET items == IF th.t = "absent" THEN <<JInt(7), JInt(14), JInt(21)>> ELSE th.items
    IN  IF th.t \notin {"absent", "list"}
           \/ \E k \in 1..Len(items) : int(items[k]).raised # None
        THEN Raise("thresholds must be positive integers")
        ELSE LET thresholds == sorted({int(items[k]).value : k \in 1..Len(items)})
             IN  IF thresholds = <<>>
                 THEN Raise("thresholds must contain at least one positive integer")
                 ELSE Ok(thresholds)

\* sorted({int(t) for t in thresholds_in if int(t) > 0}) and the two checks
\* around it
normalize_thresholds(th) ==
    LET items == IF th.t = "absent" THEN <<JInt(7), JInt(14), JInt(21)>> ELSE th.items
    IN  IF th.t \notin {"absent", "list"}
           \/ \E k \in 1..Len(items) : int(items[k]).raised # None
        THEN Raise("thresholds must be positive integers")
        ELSE LET S == {int(items[k]).value : k \in 1..Len(items)}
                 thresholds == sorted({t \in S : t > 0})
             IN  IF thresholds = <<>>
                 THEN Raise("thresholds must contain at least one positive integer")
                 ELSE Ok(thresholds)

\* the loop with > in the place of >=
RECURSIVE choose_tier_strict(_, _, _, _)
choose_tier_strict(thresholds, days_overdue, k, tier) ==
    IF k > Len(thresholds) THEN tier
    ELSE IF days_overdue > thresholds[k]
         THEN choose_tier_strict(thresholds, days_overdue, k + 1, thresholds[k])
         ELSE tier

\* the loop "choose highest tier met" from threshold k on
RECURSIVE choose_tier(_, _, _, _)
choose_tier(thresholds, days_overdue, k, tier) ==
    IF k > Len(thresholds) THEN tier
    ELSE IF days_overdue >= thresholds[k]
         THEN choose_tier(thresholds, days_overdue, k + 1, thresholds[k])
         ELSE tier

\* the wording band of the body
body_template(tier) ==
    IF tier >= 21 THEN "third reminder"
    ELSE IF tier >= 14 THEN "friendly follow-up"
    ELSE "quick reminder"

\* row.get(key, default)
row_get(row, key, default) == IF key \in DOMAIN row THEN row[key] ELSE default

\* the body of the loop over the rows, for one row: the emails after it
process_row(row, today, thresholds, emails) ==
    LET inv == row_get(row, "invoice_number", "")
        broker == row_get(row, "broker", "")
        due == parse_date(row_get(row, "due_date", DateCell("none", 0)), "")
        amount == row_get(row, "amount", Num(0))
    IN  IF due.raised # None \/ ~amount.ok THEN emails
        ELSE
        LET days_overdue == today - due.value
            tier == choose_tier(thresholds, days_overdue, 1, 0)
        IN  IF days_overdue <= 0 \/ tier = 0 THEN emails
            ELSE Append(emails,
                   [invoice_number |-> inv, broker |-> broker, due_date |-> due.value,
                    amount |-> amount.v, days_overdue |-> days_overdue, tier |-> tier,
                    subject |-> <<"Invoice ", inv, " is ", days_overdue, " days overdue">>,
                    body |-> body_template(tier)])

\* the loop with processed += 1 moved after the rows it skips
RECURSIVE process_rows_after_skip(_, _, _, _, _)
process_rows_after_skip(rows, k, today, thresholds, acc) ==
    IF k > Len(rows) THEN acc
    ELSE LET emails == process_row(rows[k], today, thresholds, acc.emails)
         IN  process_rows_after_skip(rows, k + 1, today, thresholds,
                                     [processed |-> IF emails = acc.emails THEN acc.processed
                                                    ELSE acc.processed + 1,
                                      emails |-> emails])

\* the loop over the rows from row k on: processed += 1, then the row
RECURSIVE process_rows(_, _, _, _, _)
process_rows(rows, k, today, thresholds, acc) ==
    IF k > Len(rows) THEN acc
    ELSE process_rows(rows, k + 1, today, thresholds,
                      [processed |-> acc.processed + 1,
                       emails |-> process_row(rows[k], today, thresholds, acc.emails)])

\* ', '.join(sorted(missing))
RECURSIVE join_missing(_, _)
join_missing(names, missing) ==
    IF names = <<>> THEN ""
    ELSE LET rest == join_missing(Tail(names), missing)
         IN  IF Head(names) \notin missing THEN rest
             ELSE IF rest = "" THEN Head(names) ELSE Head(names) \o ", " \o rest

required == {"invoice_number", "broker", "due_date", "amount"}

\* MCPServer.invoice_followup_tool; `now` is the current UTC date
invoice_followup_tool(params, now) ==
    IF ~params.isDict THEN Raised(NotADict, FALSE)
    ELSE
    LET csv_name == get(params.csv_name, JStr("Fake_Invoice_Data.csv"))
        today_str == params.today
        truthy == (today_str.t = "str" /\ today_str.s # "") \/ today_str.t = "int"
        today == IF truthy
                 THEN (IF today_str.t = "str" THEN parse_date(today_str, today_str.s)
                       ELSE Raise("unrecognized date format: " \o today_str.s))
                 ELSE Ok(now)
        th == normalize_thresholds(params.thresholds)
    IN  IF today.raised # None THEN Raised("invalid today: " \o today.raised, FALSE)
        ELSE IF th.raised # None THEN Raised(th.raised, FALSE)
        ELSE IF csv_name.t # "str"
        THEN Raised("unsupported operand type(s) for /: 'PosixPath' and '"
                    \o TypeName(csv_name) \o "'", FALSE)
        ELSE IF csv_name.s \notin DOMAIN Docs
        THEN Raised("csv not found: " \o csv_name.s, FALSE)
        ELSE IF Docs[csv_name.s].isDir
        THEN Raised("[Errno 21] Is a directory: 'resources/docs'", FALSE)
        ELSE
        LET doc == Docs[csv_name.s]
            stripped == {strip(doc.fieldnames[k]) : k \in 1..Len(doc.fieldnames)}
            missing == required \ stripped
        IN  IF missing # {}
            THEN Raised("csv missing columns: "
                        \o join_missing(<<"amount", "broker", "due_date", "invoice_number">>,
                                        missing), FALSE)
            ELSE LET done == process_rows(doc.rows, 1, today.value, th.value,
                                          [processed |-> 0, emails |-> <<>>])
                 IN  Returned([processed |-> done.processed,
                               overdue |-> Len(done.emails),
                               emails |-> done.emails,
                               source |-> csv_name.s], FALSE)

(***************************************************************************)
(* Protocol dispatcher (MCPServer).  A response is [id, code, message,     *)
(* result]: code 0 and a result for a success, an error code and its       *)
(* message for a failure.  A handler that returns None returns <<>>, one   *)
(* that returns a response r returns <<r>>.                                *)
(***************************************************************************)
Result(request_id, result) ==
    [id |-> request_id, code |-> 0, message |-> "", result |-> result]

Error(request_id, code, message) ==
    [id |-> request_id, code |-> code, message |-> message, result |-> [kind |-> "none"]]

\* the flag toggled instead of set
handle_initialize_toggle(init, request_id) ==
    [initialized |-> ~init,
     response |-> <<Result(request_id, [kind |-> "initialize",
                                        protocolVersion |-> "2025-06-18",
                                        serverInfo |-> "mcp-demo"])>>]

\* MCPServer.handle_initialize: sets the flag and answers the handshake
handle_initialize(init, request_id) ==
    [initialized |-> TRUE,
     response |-> <<Result(request_id, [kind |-> "initialize",
                                        protocolVersion |-> "2025-06-18",
                                        serverInfo |-> "mcp-demo"])>>]

\* the names of the tools handle_tools_list advertises, in its order
listed_tools == <<"weather", "invoice_followup", "crypto", "file", "health">>

\* MCPServer.handle_tools_list
handle_tools_list(request_id) ==
    <<Result(request_id, [kind |-> "tools", tools |-> listed_tools])>>

\* the chain without its health branch
call_tool_no_health(tool_name, arguments, up, now) ==
    CASE tool_name = "weather" ->
            [found |-> TRUE, out |-> weather_tool(arguments, up, now)]
      [] tool_name = "crypto" ->
            [found |-> TRUE, out |-> crypto_tool(arguments, up)]
      [] tool_name = "file" ->
            [found |-> TRUE, out |-> file_tool(arguments)]
      [] tool_name = "invoice_followup" ->
            [found |-> TRUE, out |-> invoice_followup_tool(arguments, now)]
      [] OTHER ->
            [found |-> FALSE, out |-> Returned(None, FALSE)]

\* the if/elif chain of handle_tool_call: the tool the name selects, run;
\* [found |-> FALSE] for the else branch
call_tool(tool_name, arguments, up, now) ==
    CASE tool_name = "weather" ->
            [found |-> TRUE, out |-> weather_tool(arguments, up, now)]
      [] tool_name = "crypto" ->
            [found |-> TRUE, out |-> crypto_tool(arguments, up)]
      [] tool_name = "file" ->
            [found |-> TRUE, out |-> file_tool(arguments)]
      [] tool_name = "health" ->
            [found |-> TRUE, out |-> health_tool]
      [] tool_name = "invoice_followup" ->
            [found |-> TRUE, out |-> invoice_followup_tool(arguments, now)]
      [] OTHER ->
            [found |-> FALSE, out |-> Returned(None, FALSE)]

\* the guard left out: tools run whatever the flag says
not_initialized_unguarded(init, request_id) == <<>>

\* the guard of handle_tool_call
not_initialized(init, request_id) ==
    IF ~init THEN <<Error(request_id, -32002, "Server not initialized")>> ELSE <<>>

\* the exception's text replaced by a fixed one
tool_error_opaque(e, request_id) == Error(request_id, -32000, "Internal error")

\* the except branch of handle_tool_call: str(e) becomes the message
tool_error(e, request_id) == Error(request_id, -32000, e)

\* the rest of the try block of handle_tool_call, given what the chain did:
\* the else branch, the success envelope or the except branch
tool_response(c, tool_name, request_id, up) ==
    IF ~c.found
    THEN [response |-> <<Error(request_id, -32601,
                               "Tool '" \o tool_name \o "' not found")>>,
          ran |-> None, upstream |-> NoCall]
    ELSE [response |->
             IF c.out.raised # None
             THEN <<tool_error(c.out.raised, request_id)>>
             ELSE <<Result(request_id, [kind |-> "content", value |-> c.out.value])>>,
          ran |-> tool_name,
          upstream |-> IF c.out.called THEN up ELSE NoCall]

\* MCPServer.handle_tool_call
handle_tool_call(init, tool_name, arguments, request_id, up, now) ==
    IF not_initialized(init, request_id) # <<>>
    THEN [response |-> not_initialized(init, request_id), ran |-> None,
          upstream |-> NoCall]
    ELSE tool_response(call_tool(tool_name, arguments, up, now),
                       tool_name, request_id, up)

\* `if request_id:` instead of `if request_id is not None:`
unknown_method_truthy(method, request_id) ==
    IF request_id \notin {None, "0"}
    THEN <<Error(request_id, -32601, "Method '" \o method \o "' not found")>>
    ELSE <<>>

\* the else branch of handle_message
unknown_method(method, request_id) ==
    IF request_id # None
    THEN <<Error(request_id, -32601, "Method '" \o method \o "' not found")>>
    ELSE <<>>

\* what handle_message leaves unchanged and returns when no tool is involved
Plain(init, response) ==
    [escaped |-> None, initialized |-> init, response |-> response,
     ran |-> None, upstream |-> NoCall]

\* what handle_message returns around handle_initialize
Initialized(h) == Plain(h.initialized, h.response)

\* what handle_message leaves unchanged and returns around handle_tool_call
ToolCall(init, h) ==
    [escaped |-> None, initialized |-> init, response |-> h.response,
     ran |-> h.ran, upstream |-> h.upstream]

\* MCPServer.handle_message; message.get and params.get raise AttributeError
\* on a JSON value that is no object, and nothing in handle_message catches it
handle_message(init, message, up, now) ==
    IF ~message.isDict
    THEN [Plain(init, <<>>) EXCEPT !.escaped = "AttributeError"]
    ELSE
    LET method == message.method
        request_id == message.id
        params == message.params
    IN  CASE method = "initialize" ->
                Initialized(handle_initialize(init, request_id))
          [] method = "tools/list" ->
                Plain(init, handle_tools_list(request_id))
          [] method = "tools/call" ->
                IF ~params.isDict
                THEN [Plain(init, <<>>) EXCEPT !.escaped = "AttributeError"]
                ELSE ToolCall(init, handle_tool_call(init, params.name, params.arguments,
                                                     request_id, up, now))
          [] method = "notifications/initialized" ->
                Plain(init, <<>>)
          [] method = "ping" ->
                Plain(init, <<Result(request_id, [kind |-> "empty"])>>)
          [] OTHER ->
                Plain(init, unknown_method(method, request_id))

\* the parse error reported as an invalid request
parse_error_invalid_request == Error(None, -32600, "Parse error: Expecting value")

\* the response main writes for a line json.loads rejects; the message ends
\* with the decoder's own text
parse_error == Error(None, -32700, "Parse error: Expecting value")

(***************************************************************************)
(* The requests of the model.                                              *)
(***************************************************************************)
ThresholdsAbsent == [t |-> "absent", items |-> <<>>]

ThresholdsList(items) == [t |-> "list", items |-> items]

\* arguments: {}
NoArgs ==
    [isDict |-> TRUE, city |-> JAbsent, days |-> JAbsent, symbol |-> JAbsent,
     vs |-> JAbsent, name |-> JAbsent, max_chars |-> JAbsent, csv_name |-> JAbsent,
     thresholds |-> ThresholdsAbsent, today |-> TodayAbsent]

\* arguments that are a JSON array or null
NonDictArgs == [NoArgs EXCEPT !.isDict = FALSE]

WeatherArgs ==
    {[NoArgs EXCEPT !.city = c, !.days = d] :
        c \in {JAbsent, JNull, JStr("Chicago"), JStr(" london "), JStr("paris"), JStr(" ")},
        d \in {JAbsent, JNull, JStr("3"), JStr("abc")}
              \cup {JInt(n) : n \in 0..(7 + MaxDaysOver)}}

CryptoArgs ==
    {[NoArgs EXCEPT !.symbol = y, !.vs = v] :
        y \in {JAbsent, JNull, JInt(5), JStr("btc"), JStr("BTC"), JStr("Eth"),
               JStr("sol"), JStr("DOGE")},
        v \in {JAbsent, JStr("USD"), JStr("eur")}}

FileArgs ==
    {[NoArgs EXCEPT !.name = n, !.max_chars = m] :
        n \in {JAbsent, JInt(5), JStr("ai-safety-notes.txt"), JStr("missing.txt"),
               JStr("Fake_Invoice_Data.csv")},
        m \in {JAbsent, JNull, JStr("3"), JInt(-1), JInt(0), JInt(1), JInt(4)}}

InvoiceArgs ==
    {[NoArgs EXCEPT !.csv_name = n, !.thresholds = th, !.today = td] :
        n \in {JAbsent, JInt(5), JStr(""), JStr("missing.csv"), JStr("bad_header.csv"),
               JStr("spaced_header.csv")},
        th \in {ThresholdsAbsent, [t |-> "int", items |-> <<>>], ThresholdsList(<<>>),
                ThresholdsList(<<JInt(0), JInt(-3)>>),
                ThresholdsList(<<JInt(0), JInt(-3), JInt(7)>>),
                ThresholdsList(<<JInt(21), JStr("7"), JInt(7)>>),
                ThresholdsList(<<JStr("abc")>>)},
        td \in {TodayAbsent, TodayInt, TodayStr("none", 0, ""),
                TodayStr("none", 0, "tomorrow"),
                TodayStr("%Y-%m-%d", 21, "2024-01-22"),
                TodayStr("%m/%d/%Y", 20, "01/21/2024")}}

Arguments == {NonDictArgs} \cup WeatherArgs \cup CryptoArgs \cup FileArgs \cup InvoiceArgs

\* request ids; "0" is the JSON number 0, None is an id that is absent or null
Ids == {None, "0", "7"}

\* params: {} and params that are a JSON array
NoParams == [isDict |-> TRUE, name |-> None, arguments |-> NoArgs]

NonDictParams == [NoParams EXCEPT !.isDict = FALSE]

ToolNames == {"weather", "crypto", "file", "health", "invoice_followup", "echo", None}

ToolCallParams ==
    {NonDictParams}
    \cup {[isDict |-> TRUE, name |-> n, arguments |-> a] : n \in ToolNames, a \in Arguments}

Message(method, id, params) ==
    [isDict |-> TRUE, method |-> method, id |-> id, params |-> params]

\* a line that is valid JSON and no object, such as [1]
NonObject == [Message(None, None, NoParams) EXCEPT !.isDict = FALSE]

Messages(method) ==
    {Message(method, id, p) :
        id \in Ids,
        p \in IF method = "tools/call" THEN ToolCallParams ELSE {NoParams, NonDictParams}}

\* the replies the upstream service of a tool may give
Upstreams(tool_name) ==
    CASE tool_name = "weather" -> WeatherUpstream
      [] tool_name = "crypto" -> CryptoUpstream
      [] OTHER -> {NoCall}

(***************************************************************************)
(* The stdio server: one action per kind of line the main loop reads.  An  *)
(* action is a whole iteration of the loop, taken from the head of the     *)
(* loop (line.kind = "none"); Continue returns to the head, where the      *)
(* locals of the iteration are dead.                                       *)
(***************************************************************************)
AtLoopHead == running /\ line.kind = "none"

Init ==
    /\ initialized = FALSE
    /\ running = TRUE
    /\ line = [kind |-> "none"]
    /\ written = <<>>
    /\ ran = None
    /\ upstream = NoCall
    /\ escaped = None
    /\ clock = 0
    /\ http = [kind |-> "none"]

\* an iteration of the main loop that handles no message and writes `out`
Skip(kind, out) ==
    /\ AtLoopHead
    /\ line' = [kind |-> kind]
    /\ written' = out
    /\ ran' = None
    /\ upstream' = NoCall
    /\ escaped' = None
    /\ UNCHANGED <<initialized, running, clock, http>>

\* readline() returns "": sleep and read again
ReadEOF == Skip("eof", <<>>)

\* a line that is empty once stripped
ReadBlank == Skip("blank", <<>>)

\* json.loads raises JSONDecodeError: the parse error is written
ReadMalformed == Skip("malformed", <<parse_error>>)

\* the rest of an iteration once handle_message has returned h, or has
\* been left by the exception h.escaped: the response, if any, is written
Iteration(message, h) ==
    /\ line' = [kind |-> "json", message |-> message]
    /\ initialized' = h.initialized
    /\ written' = (IF h.escaped = None THEN h.response ELSE <<>>)
    /\ ran' = h.ran
    /\ upstream' = h.upstream
    /\ escaped' = h.escaped
    /\ UNCHANGED <<running, clock, http>>

\* an iteration of the main loop on a line that json.loads accepts
Handle(message, up) ==
    /\ AtLoopHead
    /\ Iteration(message, handle_message(initialized, message, up, clock))

ReadNonObject == Handle(NonObject, NoCall)

Initialize == AtLoopHead /\ \E m \in Messages("initialize") : Handle(m, NoCall)

ToolsList == AtLoopHead /\ \E m \in Messages("tools/list") : Handle(m, NoCall)

ToolsCall ==
    /\ AtLoopHead
    /\ \E m \in Messages("tools/call") :
         \E up \in (IF m.params.isDict /\ initialized THEN Upstreams(m.params.name)
                    ELSE {NoCall}) :
             Handle(m, up)

NotificationsInitialized ==
    AtLoopHead /\ \E m \in Messages("notifications/initialized") : Handle(m, NoCall)

Ping == AtLoopHead /\ \E m \in Messages("ping") : Handle(m, NoCall)

UnknownMethod ==
    /\ AtLoopHead
    /\ \E method \in {"resources/list", None} :
         \E m \in Messages(method) : Handle(m, NoCall)

\* the end of the loop body: the next iteration starts
Continue ==
    /\ running
    /\ line.kind # "none"
    /\ line' = [kind |-> "none"]
    /\ written' = <<>>
    /\ ran' = None
    /\ upstream' = NoCall
    /\ escaped' = None
    /\ UNCHANGED <<initialized, running, clock, http>>

\* KeyboardInterrupt, while readline() waits, leaves the loop
Interrupt ==
    /\ AtLoopHead
    /\ running' = FALSE
    /\ UNCHANGED <<initialized, line, written, ran, upstream, escaped, clock, http>>

\* a day passes
Tick ==
    /\ AtLoopHead
    /\ clock < MaxClock
    /\ clock' = clock + 1
    /\ UNCHANGED <<initialized, running, line, written, ran, upstream, escaped, http>>

Next ==
    \/ ReadEOF
    \/ ReadBlank
    \/ ReadMalformed
    \/ ReadNonObject
    \/ Initialize
    \/ ToolsList
    \/ ToolsCall
    \/ NotificationsInitialized
    \/ Ping
    \/ UnknownMethod
    \/ Continue
    \/ Interrupt
    \/ Tick

Spec == Init /\ [][Next]_vars

(***************************************************************************)
(* The HTTP application (app.py).  A response is [status, detail, body,    *)
(* called]: the status code, the detail of an error, the body of a 200     *)
(* and whether a live call was attempted.  The request models are          *)
(* validated by the framework before the handler runs: a field of the      *)
(* wrong type or out of its declared range is answered 422.                *)
(***************************************************************************)
HttpOk(body, called) ==
    [status |-> 200, detail |-> "", body |-> body, called |-> called]

HttpError(status, detail) ==
    [status |-> status, detail |-> detail, body |-> [kind |-> "none"], called |-> FALSE]

\* the header compared without .lower()
demo_fallback_exact(header) ==
    (IF header = None THEN "0" ELSE header) \in {"1", "true", "yes"}

\* request.headers.get("x-demo-fallback", "0").lower() in ("1", "true", "yes")
demo_fallback(header) ==
    lower(IF header = None THEN "0" ELSE header) \in {"1", "true", "yes"}

\* WeatherIn: city Optional[str], lat and lon Optional[float], days an int
\* in 1..7 (a decimal string is read as its number)
WeatherIn_valid(inp) ==
    /\ inp.city.t \in {"absent", "null", "str"}
    /\ inp.lat.t \in {"absent", "null", "int"}
    /\ inp.lon.t \in {"absent", "null", "int"}
    /\ int(inp.days).raised = None
    /\ inp.days.t \in {"int", "str"}
    /\ int(inp.days).value >= 1
    /\ int(inp.days).value <= 7

\* geocode_city: whether the gazetteer holds the city
geocode_city(city) == lower(strip(city)) \in local_geo

\* the live branch of weather: the try block and its except branch, which
\* appends the mini-forecast to whatever the loop had appended
app_live_weather(location, days, up) ==
    LET f == fetch_forecast(up, <<>>)
    IN  IF f.raised
        THEN HttpOk([location |-> location, daily |-> f.daily \o fallback_daily(0, days),
                     source |-> "fallback"], TRUE)
        ELSE HttpOk([location |-> location, daily |-> f.daily, source |-> "open-meteo"],
                    TRUE)

\* weather, once the location is resolved
app_forecast(location, days, header, up) ==
    IF demo_fallback(header)
    THEN HttpOk([location |-> location, daily |-> fallback_daily(0, days),
                 source |-> "fallback"], FALSE)
    ELSE app_live_weather(location, days, up)

\* app.weather (POST /mcp/weather)
weather(inp, header, up) ==
    IF ~WeatherIn_valid(inp) THEN HttpError(422, "validation error")
    ELSE IF inp.city.t = "str" /\ inp.city.s # ""
    THEN IF ~geocode_city(inp.city.s) THEN HttpError(400, "unknown city")
         ELSE app_forecast(inp.city.s, int(inp.days).value, header, up)
    ELSE IF inp.lat.t = "int" /\ inp.lon.t = "int"
    THEN app_forecast(<<inp.lat.i, inp.lon.i>>, int(inp.days).value, header, up)
    ELSE HttpError(400, "provide city or lat/lon")

\* CryptoIn: symbol a str, vs a str that defaults to "usd"
CryptoIn_valid(inp) ==
    /\ inp.symbol.t = "str"
    /\ inp.vs.t \in {"absent", "str"}

\* the live branch of crypto: the try block and its except branch
app_live_price(sym, vs, up) ==
    LET f == fetch_price(up)
    IN  IF f.raised
        THEN HttpOk([symbol |-> sym, vs |-> vs, price |-> fixed(symbol_map(sym)),
                     source |-> "fallback"], TRUE)
        ELSE HttpOk([symbol |-> sym, vs |-> vs, price |-> f.price,
                     source |-> "coingecko"], TRUE)

\* app.crypto (POST /mcp/crypto)
crypto(inp, header, up) ==
    IF ~CryptoIn_valid(inp) THEN HttpError(422, "validation error")
    ELSE
    LET sym == lower(inp.symbol.s)
        vs == lower(get(inp.vs, JStr("usd")).s)
    IN  IF symbol_map(sym) = None THEN HttpError(400, "unsupported symbol")
        ELSE IF demo_fallback(header)
        THEN HttpOk([symbol |-> sym, vs |-> vs, price |-> fixed(symbol_map(sym)),
                     source |-> "fallback"], FALSE)
        ELSE app_live_price(sym, vs, up)

\* FileIn: name a str, max_chars an int above 0 (a decimal string is read as
\* its number)
FileIn_valid(inp) ==
    /\ inp.name.t = "str"
    /\ inp.max_chars.t \in {"int", "str"}
    /\ int(inp.max_chars).raised = None
    /\ int(inp.max_chars).value > 0

\* app.file_summarizer (POST /mcp/file); read_text on the resource root
\* itself raises IsADirectoryError, which nothing catches
file_summarizer(inp) ==
    IF ~FileIn_valid(inp) THEN HttpError(422, "validation error")
    ELSE IF inp.name.s \notin DOMAIN Docs THEN HttpError(404, "file not found")
    ELSE IF Docs[inp.name.s].isDir THEN HttpError(500, "Internal Server Error")
    ELSE LET norm == normalize(Docs[inp.name.s].text, <<>>, FALSE)
             clipped == slice_to(norm, int(inp.max_chars).value)
         IN  HttpOk([name |-> inp.name.s, chars |-> Len(clipped), text |-> clipped], FALSE)

\* InvoiceFollowupIn: csv_name a str, thresholds a list of ints (decimal
\* strings are read as their numbers), today a str or null
InvoiceFollowupIn_valid(inp) ==
    /\ inp.csv_name.t \in {"absent", "str"}
    /\ inp.thresholds.t \in {"absent", "list"}
    /\ \A k \in 1..Len(inp.thresholds.items) :
          /\ inp.thresholds.items[k].t \in {"int", "str"}
          /\ int(inp.thresholds.items[k]).raised = None
    /\ inp.today.t \in {"absent", "str"}

\* the header check of invoice_followup and the loop over the rows
app_read_csv(csv_name, today, thresholds) ==
    LET doc == Docs[csv_name]
        stripped == {strip(doc.fieldnames[k]) : k \in 1..Len(doc.fieldnames)}
        missing == required \ stripped
    IN  IF missing # {}
        THEN HttpError(400, "csv missing columns: "
                            \o join_missing(<<"amount", "broker", "due_date",
                                              "invoice_number">>, missing))
        ELSE LET done == process_rows(doc.rows, 1, today, thresholds,
                                      [processed |-> 0, emails |-> <<>>])
             IN  HttpOk([processed |-> done.processed, overdue |-> Len(done.emails),
                         emails |-> done.emails, source |-> csv_name], FALSE)

\* the checks with the CSV located before the date and the thresholds
app_checked_csv_first(today, thresholds, csv_name) ==
    IF csv_name \notin DOMAIN Docs
    THEN HttpError(404, "csv not found: " \o csv_name)
    ELSE IF today.raised # None THEN HttpError(400, today.raised)
    ELSE IF thresholds = <<>>
    THEN HttpError(400, "thresholds must contain positive integers")
    ELSE IF Docs[csv_name].isDir THEN HttpError(500, "Internal Server Error")
    ELSE app_read_csv(csv_name, today.value, thresholds)

\* the checks of invoice_followup in their order: the reference date, the
\* thresholds, the CSV, its header; then the rows.  Opening the resource
\* root itself raises IsADirectoryError, which nothing catches
app_checked(today, thresholds, csv_name) ==
    IF today.raised # None THEN HttpError(400, today.raised)
    ELSE IF thresholds = <<>>
    THEN HttpError(400, "thresholds must contain positive integers")
    ELSE IF csv_name \notin DOMAIN Docs
    THEN HttpError(404, "csv not found: " \o csv_name)
    ELSE IF Docs[csv_name].isDir THEN HttpError(500, "Internal Server Error")
    ELSE app_read_csv(csv_name, today.value, thresholds)

\* app.invoice_followup (POST /mcp/invoice_followup); `now` is the current
\* UTC date
invoice_followup(inp, now) ==
    IF ~InvoiceFollowupIn_valid(inp) THEN HttpError(422, "validation error")
    ELSE
    LET csv_name == get(inp.csv_name, JStr("Fake_Invoice_Data.csv")).s
        today == IF inp.today.t = "str" /\ inp.today.s # ""
                 THEN parse_date(inp.today, inp.today.s)
                 ELSE Ok(now)
        items == IF inp.thresholds.t = "absent" THEN <<JInt(7), JInt(14), JInt(21)>>
                 ELSE inp.thresholds.items
        thresholds == sorted({t \in {int(items[k]).value : k \in 1..Len(items)} : t > 0})
    IN  app_checked(today, thresholds, csv_name)

Headers == {None, "1", "TRUE", "yes", "0", "no"}

WeatherIns ==
    {[city |-> c, lat |-> la, lon |-> lo, days |-> d] :
        c \in {JAbsent, JStr(""), JStr("Chicago"), JStr(" london "), JStr("paris"), JInt(5)},
        la \in {JAbsent, JInt(41)},
        lo \in {JAbsent, JInt(-87)},
        d \in {JAbsent, JStr("3"), JStr("abc")} \cup {JInt(n) : n \in 0..(7 + MaxDaysOver)}}

CryptoIns ==
    {[symbol |-> y, vs |-> v] :
        y \in {JAbsent, JInt(5), JStr("btc"), JStr("BTC"), JStr("Eth"), JStr("sol"),
               JStr("DOGE")},
        v \in {JAbsent, JStr("USD"), JStr("eur"), JNull}}

FileIns ==
    {[name |-> n, max_chars |-> m] :
        n \in {JAbsent, JInt(5), JStr(""), JStr("ai-safety-notes.txt"), JStr("missing.txt"),
               JStr("Fake_Invoice_Data.csv")},
        m \in {JAbsent, JNull, JStr("3"), JStr("abc"), JInt(-1)}
              \cup {JInt(k) : k \in 0..MaxChars}}

\* the `today` overrides of the model: none, the empty string, texts no
\* format reads, and the days 0..MaxToday written in the accepted formats
Todays ==
    {TodayAbsent, TodayInt, TodayStr("none", 0, ""), TodayStr("none", 0, "tomorrow")}
    \cup {TodayStr(formats[1 + (d % 3)], d, "a date") : d \in 0..MaxToday}

ThresholdLists ==
    {ThresholdsAbsent, [t |-> "int", items |-> <<>>], ThresholdsList(<<>>),
     ThresholdsList(<<JInt(0), JInt(-3)>>),
     ThresholdsList(<<JInt(0), JInt(-3), JInt(7)>>),
     ThresholdsList(<<JInt(21), JStr("7"), JInt(7)>>),
     ThresholdsList(<<JInt(14), JInt(7), JInt(14)>>),
     ThresholdsList(<<JInt(1)>>),
     ThresholdsList(<<JStr("abc")>>)}

InvoiceIns ==
    {[csv_name |-> n, thresholds |-> th, today |-> td] :
        n \in {JAbsent, JInt(5), JStr(""), JStr("missing.csv"), JStr("bad_header.csv"),
               JStr("spaced_header.csv")},
        th \in ThresholdLists,
        td \in Todays}

AppIdle == http.kind = "none"

\* a request is handled and its response sent
Serve(kind, inp, header, up, resp) ==
    /\ http' = [kind |-> kind, inp |-> inp, header |-> header,
                upstream |-> IF resp.called THEN up ELSE NoCall, resp |-> resp]
    /\ UNCHANGED <<initialized, running, line, written, ran, upstream, escaped, clock>>

PostWeather ==
    /\ AppIdle
    /\ \E inp \in WeatherIns, header \in Headers, up \in WeatherUpstream :
         Serve("weather", inp, header, up, weather(inp, header, up))

PostCrypto ==
    /\ AppIdle
    /\ \E inp \in CryptoIns, header \in Headers, up \in CryptoUpstream :
         Serve("crypto", inp, header, up, crypto(inp, header, up))

PostFile ==
    /\ AppIdle
    /\ \E inp \in FileIns : Serve("file", inp, None, NoCall, file_summarizer(inp))

PostInvoice ==
    /\ AppIdle
    /\ \E inp \in InvoiceIns :
         Serve("invoice_followup", inp, None, NoCall, invoice_followup(inp, clock))

\* a day passes
AppTick ==
    /\ AppIdle
    /\ clock < MaxClock
    /\ clock' = clock + 1
    /\ UNCHANGED <<initialized, running, line, written, ran, upstream, escaped, http>>

\* the application is ready for the next request
AppDone ==
    /\ ~AppIdle
    /\ http' = [kind |-> "none"]
    /\ UNCHANGED <<initialized, running, line, written, ran, upstream, escaped, clock>>

AppNext ==
    \/ PostWeather
    \/ PostCrypto
    \/ PostFile
    \/ PostInvoice
    \/ AppTick
    \/ AppDone

AppSpec == Init /\ [][AppNext]_vars

(***************************************************************************)
(* Properties of the stdio server.  They are stated on the state an        *)
(* iteration of the main loop leaves: `line` is the line it read,          *)
(* `written` what it wrote.                                                *)
(***************************************************************************)
\* the iteration handled a JSON object
IsRequest(l) == l.kind = "json" /\ l.message.isDict

\* the iteration handled a tools/call whose params are a JSON object
IsToolCall(l) ==
    IsRequest(l) /\ l.message.method = "tools/call" /\ l.message.params.isDict

\* exactly one line was written, with this code and this id
Wrote(out, code, id) == Len(out) = 1 /\ out[1].code = code /\ out[1].id = id

\* C1: a written response carries -32002 exactly when the line was a
\* tools/call handled while the server was uninitialized: such a call,
\* whatever tool it names and whatever its arguments are, is answered
\* -32002 and runs no tool and no live call; initialize, tools/list and
\* ping are answered with a result, initialized or not.
C1_NotInitializedIffEarlyToolCall ==
    /\ \A k \in 1..Len(written) :
          written[k].code = -32002 => IsToolCall(line) /\ ~initialized
    /\ IsToolCall(line) /\ ~initialized =>
          /\ Wrote(written, -32002, line.message.id)
          /\ ran = None
          /\ upstream = NoCall
    /\ IsRequest(line) /\ line.message.method \in {"initialize", "tools/list", "ping"} =>
          Wrote(written, 0, line.message.id)

\* an uninitialized server has refused a call of a known tool whose
\* arguments are no object
C1_Witness ==
    /\ IsToolCall(line)
    /\ ~initialized
    /\ line.message.params.name = "weather"
    /\ ~line.message.params.arguments.isDict
    /\ Wrote(written, -32002, "7")

\* C2: the initialized flag changes only in an iteration that handles an
\* initialize message, and only from FALSE to TRUE; an iteration of an
\* initialized server never writes -32002.
C2_InitializationIrreversible ==
    [][ /\ initialized => initialized'
        /\ initialized' # initialized =>
              IsRequest(line') /\ line'.message.method = "initialize"
        /\ initialized => \A k \in 1..Len(written') : written'[k].code # -32002 ]_vars

\* an initialized server has handled a failing tool call, an unknown
\* method or a malformed line, and is still initialized
C2_Witness ==
    /\ initialized
    /\ \/ IsToolCall(line) /\ Len(written) = 1 /\ written[1].code = -32000
       \/ line.kind = "malformed"

\* C3: every JSON object with a non-null id is answered by exactly one
\* line, which carries that id.
C3_EveryIdAnswered ==
    IsRequest(line) /\ line.message.id # None =>
        Len(written) = 1 /\ written[1].id = line.message.id

\* C4: a JSON object without an id is never answered, whatever its method.
C4_NotificationsUnanswered ==
    IsRequest(line) /\ line.message.id = None => written = <<>>

KnownMethods ==
    {"initialize", "tools/list", "tools/call", "notifications/initialized", "ping"}

\* C5: an iteration that handles a message whose method is none of the five
\* known ones writes one -32601 error with the id when the id is present
\* and nothing when it is absent, and leaves the server state (the flag,
\* the loop) as it was, running no tool.
C5_UnknownMethod ==
    [][ IsRequest(line') /\ line'.message.method \notin KnownMethods =>
          /\ IF line'.message.id # None
             THEN Wrote(written', -32601, line'.message.id)
             ELSE written' = <<>>
          /\ initialized' = initialized
          /\ running' = running
          /\ ran' = None
          /\ escaped' = None ]_vars

\* a resources/list request with the id 0 was answered with -32601
C5_Witness ==
    /\ IsRequest(line)
    /\ line.message.method = "resources/list"
    /\ Wrote(written, -32601, "0")

\* C6: when the tool a tools/call selects raises in an initialized server,
\* the exception does not leave handle_message: one -32000 error is written
\* whose message is the exception's text, and the server is still
\* initialized and running.
C6_ToolExceptionBecomesError ==
    IsToolCall(line) /\ initialized =>
        LET c == call_tool(line.message.params.name, line.message.params.arguments,
                           upstream, clock)
        IN  c.found /\ c.out.raised # None =>
              /\ escaped = None
              /\ Wrote(written, -32000, line.message.id)
              /\ written[1].message = c.out.raised
              /\ initialized
              /\ running

\* the invoice tool raised FileNotFoundError and the error carries its text
C6_Witness ==
    /\ IsToolCall(line)
    /\ initialized
    /\ line.message.params.name = "invoice_followup"
    /\ Wrote(written, -32000, "7")
    /\ written[1].message = "csv not found: missing.csv"

\* C7: an iteration on a malformed line writes exactly one -32700 error
\* with a null id, changes neither the flag nor the loop, and the loop goes
\* on from it to its head with the flag as it was before the line.
C7_ParseErrorIsLocal ==
    [][ /\ line'.kind = "malformed" =>
              /\ Wrote(written', -32700, None)
              /\ initialized' = initialized
              /\ running'
              /\ ran' = None
        /\ line.kind = "malformed" =>
              /\ line'.kind = "none"
              /\ initialized' = initialized
              /\ running' ]_vars

\* a malformed line was answered by an initialized server
C7_Witness ==
    /\ line.kind = "malformed"
    /\ initialized
    /\ Wrote(written, -32700, None)

FiveTools == {"weather", "crypto", "file", "health", "invoice_followup"}

\* C8: tools/list advertises exactly the five tools, and in an initialized
\* server a tools/call runs the tool it names and is not answered -32601
\* when the name is one of the five, and is answered -32601 and runs
\* nothing when it is any other name.
C8_ListedEqualsDispatched ==
    /\ IsRequest(line) /\ line.message.method = "tools/list" =>
          /\ Len(written) = 1
          /\ {written[1].result.tools[k] : k \in 1..Len(written[1].result.tools)}
                = FiveTools
    /\ IsToolCall(line) /\ initialized =>
          IF line.message.params.name \in FiveTools
          THEN /\ Len(written) = 1
               /\ written[1].code # -32601
               /\ ran = line.message.params.name
          ELSE /\ Wrote(written, -32601, line.message.id)
               /\ ran = None
               /\ upstream = NoCall

\* an initialized server has run the health tool, and refused an unknown one
C8_Witness ==
    /\ IsToolCall(line)
    /\ initialized
    /\ \/ ran = "health" /\ Wrote(written, 0, "7")
       \/ line.message.params.name = "echo" /\ Wrote(written, -32601, "7")

(***************************************************************************)
(* Properties of the adapters, stated on the response of the HTTP          *)
(* application.                                                            *)
(***************************************************************************)
\* the forecast is the substitute: entry i is 20+i / 10+i / 0.0
OnlySubstituteValues(daily) ==
    \A k \in 1..Len(daily) :
        /\ daily[k].t_max = 20 + (k - 1)
        /\ daily[k].t_min = 10 + (k - 1)
        /\ daily[k].precip_mm = 0

\* C9: the adapters answer 200 whatever the upstream does, a forecast
\* tagged "fallback" holds only the substitute values (so one that holds a
\* live value is tagged "open-meteo"), and a price tagged "fallback" is the
\* fixed price of its coin.
C9_FallbackIsExactSubstitute ==
    /\ http.kind = "weather" /\ http.resp.called =>
          /\ http.resp.status = 200
          /\ http.resp.body.source = "fallback" =>
                OnlySubstituteValues(http.resp.body.daily)
    /\ http.kind = "crypto" /\ http.resp.called =>
          /\ http.resp.status = 200
          /\ http.resp.body.source = "fallback" =>
                http.resp.body.price = fixed(symbol_map(http.resp.body.symbol))

\* C10: a weather query the application accepts (days in 1..7, a known
\* city or coordinates) is answered with exactly `days` entries in
\* ascending date order.
C10_ForecastHasDaysEntries ==
    http.kind = "weather" /\ http.resp.status = 200 =>
        /\ Len(http.resp.body.daily) = int(http.inp.days).value
        /\ \A k \in 1..(Len(http.resp.body.daily) - 1) :
              http.resp.body.daily[k].date < http.resp.body.daily[k + 1].date

\* the values of x-demo-fallback that set bypass, among the headers sent
BypassHeaders == {"1", "TRUE", "yes"}

\* C11: a weather or crypto request sent with x-demo-fallback 1, true or
\* yes (in any case) attempts no live call and is never answered 5xx; when
\* it is answered 200 the source is "fallback", entry i of the forecast is
\* 20+i / 10+i, and the price is 50000 for btc, 3500 for eth, 150 for sol.
C11_BypassIsFixedFallback ==
    http.kind \in {"weather", "crypto"} /\ http.header \in BypassHeaders =>
        /\ ~http.resp.called
        /\ http.upstream = NoCall
        /\ http.resp.status \in {200, 400, 422}
        /\ http.resp.status = 200 => http.resp.body.source = "fallback"
        /\ http.kind = "weather" /\ http.resp.status = 200 =>
              /\ http.resp.body.daily # <<>>
              /\ \A k \in 1..Len(http.resp.body.daily) :
                    /\ http.resp.body.daily[k].t_max = 20 + (k - 1)
                    /\ http.resp.body.daily[k].t_min = 10 + (k - 1)
        /\ http.kind = "crypto" /\ http.resp.status = 200 =>
              http.resp.body.price =
                  (CASE http.resp.body.symbol = "btc" -> 50000
                     [] http.resp.body.symbol = "eth" -> 3500
                     [] http.resp.body.symbol = "sol" -> 150
                     [] OTHER -> -1)

\* a seven-day forecast was served with the header TRUE, without a live call
C11_Witness ==
    /\ http.kind = "weather"
    /\ http.header = "TRUE"
    /\ http.resp.status = 200
    /\ ~http.resp.called
    /\ Len(http.resp.body.daily) = 7
    /\ http.resp.body.daily[7].t_max = 26
    /\ http.resp.body.source = "fallback"

\* the symbols the crypto adapters map
AllowList == {"btc", "eth", "sol"}

\* the tools/call an initialized server handled named this tool and had an
\* object as arguments
Called(tool_name) ==
    /\ IsToolCall(line)
    /\ initialized
    /\ line.message.params.name = tool_name
    /\ line.message.params.arguments.isDict

\* the iteration wrote one response, and it is an error
WroteFailure == Len(written) = 1 /\ written[1].code # 0

\* C12: a crypto call whose symbol is a string outside btc, eth, sol
\* (compared in lower case) is answered with a failure, not with a price,
\* and no live call is made: an error response on the JSON-RPC transport,
\* 400 on the HTTP transport.
C12_UnsupportedSymbolFails ==
    /\ Called("crypto") /\ line.message.params.arguments.symbol.t = "str"
         /\ lower(line.message.params.arguments.symbol.s) \notin AllowList =>
          /\ WroteFailure
          /\ upstream = NoCall
    /\ http.kind = "crypto" /\ http.inp.symbol.t = "str"
         /\ http.inp.vs.t \in {"absent", "str"}
         /\ lower(http.inp.symbol.s) \notin AllowList =>
          /\ http.resp.status = 400
          /\ ~http.resp.called

\* C13: a tools/call whose arguments break the declared schema of the tool
\* (weather without city or with an integer days outside 1..7, crypto
\* without symbol, file without name or with an integer max_chars below 1)
\* is answered with a failure.
C13_SchemaViolationRejected ==
    /\ Called("weather") /\ line.message.params.arguments.city.t = "absent" => WroteFailure
    /\ Called("weather") /\ line.message.params.arguments.days.t = "int"
         /\ line.message.params.arguments.days.i \notin 1..7 => WroteFailure
    /\ Called("crypto") /\ line.message.params.arguments.symbol.t = "absent" => WroteFailure
    /\ Called("file") /\ line.message.params.arguments.name.t = "absent" => WroteFailure
    /\ Called("file") /\ line.message.params.arguments.max_chars.t = "int"
         /\ line.message.params.arguments.max_chars.i < 1 => WroteFailure

\* C14: a file call or an invoice_followup call that names a resource the
\* resource root does not hold is answered with a failure: an error
\* response on the JSON-RPC transport, 404 for a file and no 200 for an
\* invoice run on the HTTP transport.
C14_AbsentResourceIsNotFound ==
    /\ Called("file") /\ line.message.params.arguments.name.t = "str"
         /\ line.message.params.arguments.name.s \notin DOMAIN Docs => WroteFailure
    /\ Called("invoice_followup") /\ line.message.params.arguments.csv_name.t = "str"
         /\ line.message.params.arguments.csv_name.s \notin DOMAIN Docs => WroteFailure
    /\ http.kind = "file" /\ http.inp.name.t = "str" /\ http.inp.name.s \notin DOMAIN Docs
         /\ http.resp.status # 422 =>
          http.resp.status = 404
    /\ http.kind = "invoice_followup" /\ http.inp.csv_name.t = "str"
         /\ http.inp.csv_name.s \notin DOMAIN Docs =>
          http.resp.status \in {400, 404, 422}

\* the digest is right for a resource and a max_chars: chars is the length
\* of the text and at most max_chars, and the text is the start of the
\* whitespace-normalized content (one space for each run of whitespace,
\* none at the ends), all of it when it is shorter than max_chars
DigestIsRight(digest, name, max_chars) ==
    /\ digest.chars = Len(digest.text)
    /\ digest.chars <= max_chars
    /\ name \in DOMAIN Docs /\ ~Docs[name].isDir =>
          LET norm == normalize(Docs[name].text, <<>>, FALSE)
          IN  /\ digest.text = SubSeq(norm, 1, digest.chars)
              /\ digest.chars < max_chars => digest.text = norm
              /\ norm # <<>> => Head(norm) # " " /\ norm[Len(norm)] # " "
              /\ \A k \in 1..Len(norm) : norm[k] \notin {"\n", "\t"}
              /\ \A k \in 1..(Len(norm) - 1) : ~(norm[k] = " " /\ norm[k + 1] = " ")

\* C15: a file call answered with a success payload returns chars equal to
\* the length of the text and at most max_chars (200 when the JSON-RPC call
\* gives none), and the text is the whitespace-normalized content cut to
\* max_chars, on both transports.
C15_FileDigest ==
    /\ Called("file") /\ Wrote(written, 0, line.message.id)
         /\ line.message.params.arguments.max_chars.t \in {"absent", "int"}
         /\ get(line.message.params.arguments.max_chars, JInt(200)).i >= 1 =>
          DigestIsRight(written[1].result.value,
                        written[1].result.value.name,
                        get(line.message.params.arguments.max_chars, JInt(200)).i)
    /\ http.kind = "file" /\ http.resp.status = 200 =>
          DigestIsRight(http.resp.body, http.inp.name.s, int(http.inp.max_chars).value)

(***************************************************************************)
(* Properties of the invoice engine, stated on the request and the         *)
(* response of either transport.                                           *)
(***************************************************************************)
\* the integers a thresholds argument holds (the default when it is absent)
RequestedInts(th) ==
    LET items == IF th.t = "absent" THEN <<JInt(7), JInt(14), JInt(21)>> ELSE th.items
    IN  {int(items[k]).value : k \in 1..Len(items)}

\* the thresholds argument is absent or a list of integers
IsIntList(th) ==
    /\ th.t \in {"absent", "list"}
    /\ \A k \in 1..Len(th.items) : int(th.items[k]).raised = None

\* the tiers a thresholds argument asks for: its positive integers
RequestedTiers(th) == {t \in RequestedInts(th) : t > 0}

\* a `today` override is given (a non-empty string, or a number)
HasOverride(today) == (today.t = "str" /\ today.s # "") \/ today.t = "int"

\* the reference day of a run: the override, else the current day
ReferenceDay(today, now) == IF HasOverride(today) THEN today.day ELSE now

\* the cell the engine reads for a column: the one under exactly that name
DueCell(row) == row_get(row, "due_date", DateCell("none", 0))

\* the due date and the amount of the row can be read
Parseable(row) == DueCell(row).fmt # "none" /\ row_get(row, "amount", Num(0)).ok

\* the index of the row an email was written for
RowOf(rows, email) ==
    CHOOSE k \in 1..Len(rows) : rows[k].invoice_number = email.invoice_number

\* for every readable row with d > 0 overdue days: an email exists exactly
\* when some tier is at most d, and its tier is the largest such tier
TiersAreRight(result, tiers, ref) ==
    LET rows == Docs[result.source].rows
    IN  \A k \in 1..Len(rows) :
          LET d == ref - DueCell(rows[k]).day
              sent == {j \in 1..Len(result.emails) :
                          result.emails[j].invoice_number = rows[k].invoice_number}
          IN  Parseable(rows[k]) /\ d > 0 =>
                IF \E t \in tiers : t <= d
                THEN /\ Cardinality(sent) = 1
                     /\ \A j \in sent :
                          /\ result.emails[j].days_overdue = d
                          /\ result.emails[j].tier \in tiers
                          /\ result.emails[j].tier <= d
                          /\ \A t \in tiers : t <= d => t <= result.emails[j].tier
                ELSE sent = {}

\* C16: in every invoice result, on either transport, a readable row that
\* is d > 0 days overdue has an email exactly when d is at least the
\* smallest requested tier, and the email's tier is the largest requested
\* tier t with t <= d.
C16_TierIsLargestThresholdMet ==
    /\ http.kind = "invoice_followup" /\ http.resp.status = 200 =>
          TiersAreRight(http.resp.body, RequestedTiers(http.inp.thresholds),
                        ReferenceDay(http.inp.today, clock))
    /\ Called("invoice_followup") /\ Wrote(written, 0, line.message.id) =>
          TiersAreRight(written[1].result.value,
                        RequestedTiers(line.message.params.arguments.thresholds),
                        ReferenceDay(line.message.params.arguments.today, clock))

\* with the default thresholds, rows 21 and 6 days overdue and one due that
\* day: tier 21 for the first, no email for the others
C16_Witness ==
    /\ http.kind = "invoice_followup"
    /\ http.inp.thresholds.t = "absent"
    /\ http.inp.today.t = "str"
    /\ http.inp.today.day = 21
    /\ http.resp.status = 200
    /\ Len(http.resp.body.emails) = 2
    /\ http.resp.body.emails[1].invoice_number = "INV1"
    /\ http.resp.body.emails[1].tier = 21
    /\ http.resp.body.emails[2].invoice_number = "INV0"
    /\ http.resp.body.emails[2].days_overdue = 19
    /\ http.resp.body.emails[2].tier = 14

\* processed counts every row, overdue counts the emails, every email is
\* for a readable row, and the emails are in the order of their rows
CountsAreRight(result) ==
    LET rows == Docs[result.source].rows
    IN  /\ result.processed = Len(rows)
        /\ result.overdue = Len(result.emails)
        /\ result.overdue <= result.processed
        /\ \A j \in 1..Len(result.emails) :
              /\ \E k \in 1..Len(rows) :
                    rows[k].invoice_number = result.emails[j].invoice_number
              /\ Parseable(rows[RowOf(rows, result.emails[j])])
        /\ \A i, j \in 1..Len(result.emails) :
              i < j => RowOf(rows, result.emails[i]) < RowOf(rows, result.emails[j])

\* C17: in every invoice result, on either transport, processed is the
\* number of data rows of the CSV, overdue is the number of emails and at
\* most processed, no email is for a row whose due date or amount cannot
\* be read (and such a row makes no error: the result is a success), and
\* the emails are in CSV row order.
C17_CountsAndOrder ==
    /\ http.kind = "invoice_followup" /\ http.resp.status = 200 =>
          CountsAreRight(http.resp.body)
    /\ Called("invoice_followup") /\ Wrote(written, 0, line.message.id) =>
          CountsAreRight(written[1].result.value)

\* a CSV of five rows, two of them unreadable, gave three emails in row
\* order, which is neither the order of the invoice numbers nor of the days
C17_Witness ==
    /\ http.kind = "invoice_followup"
    /\ http.resp.status = 200
    /\ http.resp.body.processed = 5
    /\ http.resp.body.overdue = 3
    /\ http.resp.body.emails[1].invoice_number = "INV1"
    /\ http.resp.body.emails[2].invoice_number = "INV4"
    /\ http.resp.body.emails[3].invoice_number = "INV0"
    /\ http.resp.body.emails[2].days_overdue < http.resp.body.emails[3].days_overdue

\* the two messages of the thresholds checks of the JSON-RPC tool
ThresholdsMessages ==
    {"thresholds must be positive integers",
     "thresholds must contain at least one positive integer"}

\* C18: the normalization of a list of integers is the strictly ascending
\* sequence of its distinct positive values; a list without a positive
\* value makes the call fail with the thresholds message whatever the CSV
\* name is (once the reference date is accepted), and a list with one never
\* does; the tiers of the emails are among the positive values.
C18_ThresholdsNormalized ==
    /\ Called("invoice_followup") /\ IsIntList(line.message.params.arguments.thresholds) =>
          LET a == line.message.params.arguments
              n == normalize_thresholds(a.thresholds)
              tiers == RequestedTiers(a.thresholds)
          IN  /\ tiers = {} =>
                    /\ n.raised = "thresholds must contain at least one positive integer"
                    /\ WroteFailure
                    /\ written[1].message \in
                          {n.raised, "invalid today: unrecognized date format: " \o a.today.s}
              /\ tiers # {} =>
                    /\ n.raised = None
                    /\ {n.value[k] : k \in 1..Len(n.value)} = tiers
                    /\ \A k \in 1..(Len(n.value) - 1) : n.value[k] < n.value[k + 1]
                    /\ Len(written) = 1
                    /\ written[1].message \notin ThresholdsMessages
                    /\ written[1].code = 0 =>
                          \A j \in 1..Len(written[1].result.value.emails) :
                              written[1].result.value.emails[j].tier \in tiers
    /\ http.kind = "invoice_followup" /\ http.resp.status # 422 =>
          LET tiers == RequestedTiers(http.inp.thresholds)
              refused == http.resp.detail = "thresholds must contain positive integers"
          IN  /\ tiers = {} =>
                    /\ http.resp.status = 400
                    /\ refused \/ http.resp.detail =
                                     "unrecognized date format: " \o http.inp.today.s
              /\ tiers # {} => ~refused
              /\ http.resp.status = 200 =>
                    \A j \in 1..Len(http.resp.body.emails) :
                        http.resp.body.emails[j].tier \in tiers

\* the thresholds [0, -3, 7] were normalized to [7] and gave tier 7, and
\* [0, -3] was refused although the CSV is missing
C18_Witness ==
    /\ Called("invoice_followup")
    /\ LET a == line.message.params.arguments
       IN  \/ /\ a.thresholds = ThresholdsList(<<JInt(0), JInt(-3), JInt(7)>>)
              /\ normalize_thresholds(a.thresholds) = Ok(<<7>>)
              /\ Wrote(written, 0, line.message.id)
              /\ Len(written[1].result.value.emails) > 0
              /\ written[1].result.value.emails[1].tier = 7
           \/ /\ a.thresholds = ThresholdsList(<<JInt(0), JInt(-3)>>)
              /\ a.csv_name = JStr("missing.csv")
              /\ Wrote(written, -32000, line.message.id)
              /\ written[1].message = "thresholds must contain at least one positive integer"

\* C19: the first failing check of an invoice run decides the failure, in
\* the order reference date, thresholds, CSV, header: an unreadable
\* override is refused as such whatever the thresholds and the CSV are;
\* else thresholds without a positive value are refused whatever the CSV
\* is; else a missing CSV is not found; else a header without a required
\* column is refused with the names of the missing columns; and a failure
\* carries no result.
C19_ChecksInOrder ==
    /\ http.kind = "invoice_followup" /\ http.resp.status # 422 =>
          LET name == get(http.inp.csv_name, JStr("Fake_Invoice_Data.csv")).s
              badDate == HasOverride(http.inp.today) /\ http.inp.today.fmt = "none"
              noTier == RequestedTiers(http.inp.thresholds) = {}
              failure == [status |-> http.resp.status, detail |-> http.resp.detail]
          IN  /\ badDate =>
                    failure = [status |-> 400,
                               detail |-> "unrecognized date format: " \o http.inp.today.s]
              /\ ~badDate /\ noTier =>
                    failure = [status |-> 400,
                               detail |-> "thresholds must contain positive integers"]
              /\ ~badDate /\ ~noTier /\ name \notin DOMAIN Docs =>
                    failure = [status |-> 404, detail |-> "csv not found: " \o name]
              /\ ~badDate /\ ~noTier /\ name = "bad_header.csv" =>
                    failure = [status |-> 400,
                               detail |-> "csv missing columns: amount, broker"]
              /\ http.resp.status # 200 => http.resp.body = [kind |-> "none"]
    /\ Called("invoice_followup") =>
          LET a == line.message.params.arguments
              badDate == HasOverride(a.today) /\ a.today.fmt = "none"
              noTier == ~IsIntList(a.thresholds) \/ RequestedTiers(a.thresholds) = {}
              name == get(a.csv_name, JStr("Fake_Invoice_Data.csv"))
          IN  /\ WroteFailure => written[1].code = -32000
              /\ badDate =>
                    /\ WroteFailure
                    /\ written[1].message =
                          "invalid today: unrecognized date format: " \o a.today.s
              /\ ~badDate /\ noTier =>
                    WroteFailure /\ written[1].message \in ThresholdsMessages
              /\ ~badDate /\ ~noTier /\ name.t = "str" /\ name.s \notin DOMAIN Docs =>
                    WroteFailure /\ written[1].message = "csv not found: " \o name.s
              /\ ~badDate /\ ~noTier /\ name = JStr("bad_header.csv") =>
                    /\ WroteFailure
                    /\ written[1].message = "csv missing columns: amount, broker"

\* an unreadable override was refused although the thresholds are empty and
\* the CSV is missing
C19_Witness ==
    /\ http.kind = "invoice_followup"
    /\ http.inp.today.s = "tomorrow"
    /\ http.inp.thresholds = ThresholdsList(<<>>)
    /\ http.inp.csv_name = JStr("missing.csv")
    /\ http.resp.status = 400
    /\ http.resp.detail = "unrecognized date format: tomorrow"

====
